---- MODULE Spec2Model ----
(***************************************************************************)
(* Model of accessible_output2/outputs/voiceover.py: the VoiceOverBridge   *)
(* ctypes wrapper and the VoiceOver output adapter built on top of it.     *)
(*                                                                         *)
(* The native library, the wx toolkit and the filesystem are collaborators *)
(* whose outcomes (return value or raised exception) are inputs of each    *)
(* operation.  Python values are modelled as records so that values of     *)
(* different Python types can be compared.                                 *)
(***************************************************************************)
EXTENDS Integers, Sequences, FiniteSets, TLC

\* ---------------------------------------------------------------- bounds
\* Largest pointer value a window handle takes (handles are 1..NHandles).
NHandles == 2
\* Cap on how many times the free-standing Bridge is shut down in one run.
MaxShutdowns == 2

\* ------------------------------------------------------- Python values
\* No exception / no value markers used in results.
NoExc == "none"

\* Window handle values: None, a Python int, a ctypes.c_void_p, or an
\* object int() cannot convert.
NoneH == [kind |-> "none", val |-> 0]
ObjH == [kind |-> "obj", val |-> 0]
IntH(n) == [kind |-> "int", val |-> n]
PtrH(n) == [kind |-> "ptr", val |-> n]

HandleValues ==
  {NoneH, ObjH} \cup {IntH(n) : n \in 0..NHandles} \cup {PtrH(n) : n \in 0..NHandles}

\* `x in (None, 0)`: identity or == against None and 0.  ctypes.c_void_p
\* defines no __eq__, so a pointer object never compares equal to 0.
InNoneZero(h) == h.kind = "none" \/ (h.kind = "int" /\ h.val = 0)

\* Python truth value of a handle: c_void_p is false when null.
Truthy(h) ==
  \/ h.kind \in {"ptr", "int"} /\ h.val # 0
  \/ h.kind = "obj"

\* Speech payloads: str values as sequences of code points, plus one value
\* that is not a str.
Str(cps) == [isStr |-> TRUE, cps |-> cps]
NotAStr == [isStr |-> FALSE, cps |-> <<>>]
Texts == {Str(<<>>), Str(<<104, 233, 8364, 128512>>)}
Payloads == Texts \cup {NotAStr}

\* str.encode("utf-8") for one code point.
Utf8Char(c) ==
  IF c < 128 THEN <<c>>
  ELSE IF c < 2048 THEN <<192 + (c \div 64), 128 + (c % 64)>>
  ELSE IF c < 65536
    THEN <<224 + (c \div 4096), 128 + ((c \div 64) % 64), 128 + (c % 64)>>
    ELSE <<240 + (c \div 262144), 128 + ((c \div 4096) % 64),
           128 + ((c \div 64) % 64), 128 + (c % 64)>>

RECURSIVE Utf8(_)
Utf8(cps) == IF cps = <<>> THEN <<>> ELSE Utf8Char(Head(cps)) \o Utf8(Tail(cps))

\* Outcomes of a native call returning c_bool, and of one returning void.
BoolOutcomes == {"true", "false", "raise"}
VoidOutcomes == {"return", "raise"}

\* --------------------------------------------------- VoiceOverBridge
\* A bridge object.  `initialized` is the attribute of the class; `hwnd`
\* records the pointer of the vo_init_with_window call that made it true
\* and `shutdowns` counts the calls of shutdown() on the object.
NoBridge == [exists |-> FALSE, initialized |-> FALSE, hwnd |-> 0, shutdowns |-> 0]
NewBridge == [exists |-> TRUE, initialized |-> FALSE, hwnd |-> 0, shutdowns |-> 0]

\* One call into the native library: its arguments, the state of the
\* bridge object it went through, and what the native function did.
Call(fn, ptr, bytes, flag, b, out) ==
  [fn |-> fn, ptr |-> ptr, bytes |-> bytes, flag |-> flag,
   binit |-> b.initialized, bhwnd |-> b.hwnd, out |-> out]

Required == <<"vo_init_with_window", "vo_is_running", "vo_announce", "vo_shutdown">>
RequiredSet == {Required[i] : i \in 1..Len(Required)}

\* AttributeError("Loaded VoiceOver library missing symbol: %s" % name)
MissingSymbol ==
  <<"AttributeError: vo_init_with_window", "AttributeError: vo_is_running",
    "AttributeError: vo_announce", "AttributeError: vo_shutdown">>

\* A library environment: whether the dylib file is found, and the symbols
\* the loaded library exports.
Libs == [found : BOOLEAN, syms : SUBSET RequiredSet]
GoodLib == [found |-> TRUE, syms |-> RequiredSet]

\* Variant of _configure_signatures that checks every symbol and reports the
\* last one it found missing.
ConfigureSignatures_LastMissing(syms) ==
  LET missing == {i \in 1..Len(Required) : Required[i] \notin syms}
  IN IF missing = {} THEN NoExc
     ELSE LET last == CHOOSE i \in missing : \A j \in missing : j <= i
          IN MissingSymbol[last]

\* _configure_signatures: error naming the first missing symbol, or none.
ConfigureSignatures(syms) ==
  LET missing == {i \in 1..Len(Required) : Required[i] \notin syms}
  IN IF missing = {} THEN NoExc
     ELSE LET first == CHOOSE i \in missing : \A j \in missing : i <= j
          IN MissingSymbol[first]

\* VoiceOverBridge(): resolve the dylib, load it, check the symbols.
BridgeConstruct(lib) ==
  IF ~lib.found THEN [b |-> NoBridge, exc |-> "FileNotFoundError"]
  ELSE IF ConfigureSignatures(lib.syms) # NoExc
    THEN [b |-> NoBridge, exc |-> ConfigureSignatures(lib.syms)]
    ELSE [b |-> NewBridge, exc |-> NoExc]

BridgeResult(b, ret, exc, calls) == [b |-> b, ret |-> ret, exc |-> exc, calls |-> calls]

\* VoiceOverBridge.init(hwnd); `out` is the outcome of vo_init_with_window.
BridgeInit(b, hwnd, out) ==
  IF InNoneZero(hwnd) THEN BridgeResult(b, "none", "ValueError", <<>>)
  ELSE IF hwnd.kind = "obj" THEN BridgeResult(b, "none", "TypeError", <<>>)
  ELSE LET call == Call("vo_init_with_window", hwnd.val, <<>>, 0, b, out)
       IN IF out = "raise" THEN BridgeResult(b, "none", "NativeError", <<call>>)
          ELSE BridgeResult(
                 [b EXCEPT !.initialized = (out = "true"),
                           !.hwnd = IF out = "true" THEN hwnd.val ELSE 0],
                 out, NoExc, <<call>>)

\* VoiceOverBridge.is_running(); `out` is the outcome of vo_is_running.
BridgeIsRunning(b, out) ==
  LET call == Call("vo_is_running", 0, <<>>, 0, b, out)
  IN IF out = "raise" THEN BridgeResult(b, "none", "NativeError", <<call>>)
     ELSE BridgeResult(b, out, NoExc, <<call>>)

\* Variant of speak without the guard on the initialized flag.
BridgeSpeak_NoInitCheck(b, text, interrupt, out) ==
  IF ~text.isStr THEN BridgeResult(b, "none", "TypeError", <<>>)
  ELSE LET call == Call("vo_announce", 0, Utf8(text.cps),
                        IF interrupt THEN 1 ELSE 0, b, out)
       IN IF out = "raise" THEN BridgeResult(b, "none", "NativeError", <<call>>)
          ELSE BridgeResult(b, out, NoExc, <<call>>)

\* VoiceOverBridge.speak(text, interrupt); `out` is the outcome of vo_announce.
BridgeSpeak(b, text, interrupt, out) ==
  IF ~b.initialized THEN BridgeResult(b, "none", "RuntimeError", <<>>)
  ELSE IF ~text.isStr THEN BridgeResult(b, "none", "TypeError", <<>>)
  ELSE LET call == Call("vo_announce", 0, Utf8(text.cps),
                        IF interrupt THEN 1 ELSE 0, b, out)
       IN IF out = "raise" THEN BridgeResult(b, "none", "NativeError", <<call>>)
          ELSE BridgeResult(b, out, NoExc, <<call>>)

\* VoiceOverBridge.shutdown(); `out` is the outcome of vo_shutdown.  The
\* flag is cleared by the statement after the native call, so an exception
\* from the native call leaves it as it was.
BridgeShutdown(b, out) ==
  LET call == Call("vo_shutdown", 0, <<>>, 0, b, out)
      called == [b EXCEPT !.shutdowns = @ + 1]
  IN IF out = "raise" THEN BridgeResult(called, "none", "NativeError", <<call>>)
     ELSE BridgeResult([called EXCEPT !.initialized = FALSE, !.hwnd = 0],
                       "none", NoExc, <<call>>)

\* ------------------------------------------------------------ windows
\* What calling an accessor of a window object does: the attribute is
\* absent, the call raises, or it returns a handle value.
Absent == [k |-> "absent", h |-> NoneH]
Raises == [k |-> "raise", h |-> NoneH]
Returns(h) == [k |-> "val", h |-> h]
Accessors == {Absent, Raises} \cup {Returns(h) : h \in HandleValues}

\* A window argument: None, or an object with MacGetTopLevelWindowRef
\* and/or GetHandle.
NoneWindow == [none |-> TRUE, mac |-> Absent, get |-> Absent]
WindowObj(mac, get) == [none |-> FALSE, mac |-> mac, get |-> get]
Windows ==
  {NoneWindow, WindowObj(Absent, Absent),
   WindowObj(Raises, Returns(IntH(NHandles))),
   WindowObj(Returns(PtrH(1)), Returns(IntH(NHandles)))}
    \cup {WindowObj(m, Absent) :
            m \in {Raises, Returns(NoneH), Returns(PtrH(0))}
                    \cup {Returns(PtrH(n)) : n \in 1..NHandles}}
    \cup {WindowObj(Absent, g) :
            g \in {Raises, Returns(IntH(0)), Returns(ObjH)}
                    \cup {Returns(IntH(n)) : n \in 1..NHandles}}

\* VoiceOver._extract_handle(window): None or a c_void_p.
ExtractHandle(window) ==
  IF window.none THEN NoneH
  ELSE LET acc == IF window.mac.k # "absent" THEN window.mac ELSE window.get
           handle == IF acc.k = "val" THEN acc.h ELSE NoneH
       IN IF InNoneZero(handle) THEN NoneH
          ELSE IF handle.kind = "ptr" THEN handle
          ELSE IF handle.kind = "obj" THEN NoneH
          ELSE PtrH(handle.val)

\* What the wx toolkit does during auto-detection: wx not importable,
\* GetApp() raising or returning None, GetTopWindow() raising, or
\* GetTopWindow() returning `win`.
Tops ==
  {[wx |-> k, win |-> NoneWindow] : k \in {"nowx", "appraise", "noapp", "topraise"}}
    \cup {[wx |-> "window", win |-> w] : w \in Windows}
NoTop == [wx |-> "nowx", win |-> NoneWindow]

\* ------------------------------------------------------ VoiceOver adapter
\* The adapter object: the five attributes set by VoiceOver.__init__.
NewAdapter ==
  [bridge |-> NoBridge, window_handle |-> NoneH,
   initialization_attempted |-> FALSE, initialized |-> FALSE,
   last_error |-> NoExc]

\* Everything the collaborators do during one adapter operation.
Env(lib, top, init, announce, running, shutdown) ==
  [lib |-> lib, top |-> top, init |-> init, announce |-> announce,
   running |-> running, shutdown |-> shutdown]

\* VoiceOver._auto_detect_window_handle(); the wx calls are not guarded.
AutoDetectWindowHandle(s, top) ==
  IF top.wx \in {"nowx", "noapp"} THEN [s |-> s, h |-> NoneH, exc |-> NoExc]
  ELSE IF top.wx \in {"appraise", "topraise"}
    THEN [s |-> s, h |-> NoneH, exc |-> "ToolkitError"]
  ELSE IF top.win.none THEN [s |-> s, h |-> NoneH, exc |-> NoExc]
  ELSE LET handle == ExtractHandle(top.win)
       IN [s |-> IF Truthy(handle) THEN [s EXCEPT !.window_handle = handle] ELSE s,
           h |-> handle, exc |-> NoExc]

\* `cons` tells whether VoiceOverBridge() was called: "no", "new", "failed".
EnsureResult(s, ok, exc, calls, cons) ==
  [s |-> s, ok |-> ok, exc |-> exc, calls |-> calls, cons |-> cons]

\* Variant of _ensure_bridge that records the missing handle as an error.
EnsureBridge_RecordsNoHandle(s, env) ==
  IF s.initialized /\ s.bridge.exists THEN EnsureResult(s, TRUE, NoExc, <<>>, "no")
  ELSE
    LET c == IF ~s.bridge.exists THEN BridgeConstruct(env.lib)
             ELSE [b |-> s.bridge, exc |-> NoExc]
        cons == IF s.bridge.exists THEN "no" ELSE "new"
    IN IF c.exc # NoExc
       THEN EnsureResult([s EXCEPT !.last_error = c.exc], FALSE, NoExc, <<>>, "failed")
       ELSE
         LET s1 == [s EXCEPT !.bridge = c.b]
             ad == IF Truthy(s1.window_handle)
                   THEN [s |-> s1, h |-> s1.window_handle, exc |-> NoExc]
                   ELSE AutoDetectWindowHandle(s1, env.top)
         IN IF ad.exc # NoExc THEN EnsureResult(ad.s, FALSE, ad.exc, <<>>, cons)
            ELSE IF ~Truthy(ad.h)
              THEN EnsureResult([ad.s EXCEPT !.initialization_attempted = TRUE,
                                              !.last_error = "NoHandleError"],
                                FALSE, NoExc, <<>>, cons)
            ELSE
              LET r == BridgeInit(ad.s.bridge, ad.h, env.init)
                  s2 == [ad.s EXCEPT !.bridge = r.b]
              IN IF r.exc # NoExc
                 THEN EnsureResult([s2 EXCEPT !.last_error = r.exc,
                                              !.initialization_attempted = TRUE],
                                   FALSE, NoExc, r.calls, cons)
                 ELSE IF r.ret = "true"
                   THEN EnsureResult([s2 EXCEPT !.initialized = TRUE,
                                                !.initialization_attempted = TRUE],
                                     TRUE, NoExc, r.calls, cons)
                   ELSE EnsureResult([s2 EXCEPT !.initialization_attempted = TRUE],
                                     FALSE, NoExc, r.calls, cons)

\* Variant of _ensure_bridge without the early return for an adapter that
\* is already initialized with a live bridge.
EnsureBridge_NoEarlyReturn(s, env) ==
  LET c == IF ~s.bridge.exists THEN BridgeConstruct(env.lib)
           ELSE [b |-> s.bridge, exc |-> NoExc]
      cons == IF s.bridge.exists THEN "no" ELSE "new"
  IN IF c.exc # NoExc
     THEN EnsureResult([s EXCEPT !.last_error = c.exc], FALSE, NoExc, <<>>, "failed")
     ELSE
       LET s1 == [s EXCEPT !.bridge = c.b]
           ad == IF Truthy(s1.window_handle)
                 THEN [s |-> s1, h |-> s1.window_handle, exc |-> NoExc]
                 ELSE AutoDetectWindowHandle(s1, env.top)
       IN IF ad.exc # NoExc THEN EnsureResult(ad.s, FALSE, ad.exc, <<>>, cons)
          ELSE IF ~Truthy(ad.h)
            THEN EnsureResult([ad.s EXCEPT !.initialization_attempted = TRUE],
                              FALSE, NoExc, <<>>, cons)
          ELSE
            LET r == BridgeInit(ad.s.bridge, ad.h, env.init)
                s2 == [ad.s EXCEPT !.bridge = r.b]
            IN IF r.exc # NoExc
               THEN EnsureResult([s2 EXCEPT !.last_error = r.exc,
                                            !.initialization_attempted = TRUE],
                                 FALSE, NoExc, r.calls, cons)
               ELSE IF r.ret = "true"
                 THEN EnsureResult([s2 EXCEPT !.initialized = TRUE,
                                              !.initialization_attempted = TRUE],
                                   TRUE, NoExc, r.calls, cons)
                 ELSE EnsureResult([s2 EXCEPT !.initialization_attempted = TRUE],
                                   FALSE, NoExc, r.calls, cons)

\* Variant of _ensure_bridge that keeps a reference to the bridge object whose
\* construction failed.
EnsureBridge_KeepsFailedBridge(s, env) ==
  IF s.initialized /\ s.bridge.exists THEN EnsureResult(s, TRUE, NoExc, <<>>, "no")
  ELSE
    LET c == IF ~s.bridge.exists THEN BridgeConstruct(env.lib)
             ELSE [b |-> s.bridge, exc |-> NoExc]
        cons == IF s.bridge.exists THEN "no" ELSE "new"
    IN IF c.exc # NoExc
       THEN EnsureResult([s EXCEPT !.last_error = c.exc, !.bridge = NewBridge],
                         FALSE, NoExc, <<>>, "failed")
       ELSE
         LET s1 == [s EXCEPT !.bridge = c.b]
             ad == IF Truthy(s1.window_handle)
                   THEN [s |-> s1, h |-> s1.window_handle, exc |-> NoExc]
                   ELSE AutoDetectWindowHandle(s1, env.top)
         IN IF ad.exc # NoExc THEN EnsureResult(ad.s, FALSE, ad.exc, <<>>, cons)
            ELSE IF ~Truthy(ad.h)
              THEN EnsureResult([ad.s EXCEPT !.initialization_attempted = TRUE],
                                FALSE, NoExc, <<>>, cons)
            ELSE
              LET r == BridgeInit(ad.s.bridge, ad.h, env.init)
                  s2 == [ad.s EXCEPT !.bridge = r.b]
              IN IF r.exc # NoExc
                 THEN EnsureResult([s2 EXCEPT !.last_error = r.exc,
                                              !.initialization_attempted = TRUE],
                                   FALSE, NoExc, r.calls, cons)
                 ELSE IF r.ret = "true"
                   THEN EnsureResult([s2 EXCEPT !.initialized = TRUE,
                                                !.initialization_attempted = TRUE],
                                     TRUE, NoExc, r.calls, cons)
                   ELSE EnsureResult([s2 EXCEPT !.initialization_attempted = TRUE],
                                     FALSE, NoExc, r.calls, cons)

\* Variant of _ensure_bridge that asks the toolkit first and falls back to the
\* stored handle: self._auto_detect_window_handle() or self._window_handle.
EnsureBridge_PrefersAutoDetect(s, env) ==
  IF s.initialized /\ s.bridge.exists THEN EnsureResult(s, TRUE, NoExc, <<>>, "no")
  ELSE
    LET c == IF ~s.bridge.exists THEN BridgeConstruct(env.lib)
             ELSE [b |-> s.bridge, exc |-> NoExc]
        cons == IF s.bridge.exists THEN "no" ELSE "new"
    IN IF c.exc # NoExc
       THEN EnsureResult([s EXCEPT !.last_error = c.exc], FALSE, NoExc, <<>>, "failed")
       ELSE
         LET s1 == [s EXCEPT !.bridge = c.b]
             found == AutoDetectWindowHandle(s1, env.top)
             ad == IF found.exc # NoExc \/ Truthy(found.h) THEN found
                   ELSE [s |-> s1, h |-> s1.window_handle, exc |-> NoExc]
         IN IF ad.exc # NoExc THEN EnsureResult(ad.s, FALSE, ad.exc, <<>>, cons)
            ELSE IF ~Truthy(ad.h)
              THEN EnsureResult([ad.s EXCEPT !.initialization_attempted = TRUE],
                                FALSE, NoExc, <<>>, cons)
            ELSE
              LET r == BridgeInit(ad.s.bridge, ad.h, env.init)
                  s2 == [ad.s EXCEPT !.bridge = r.b]
              IN IF r.exc # NoExc
                 THEN EnsureResult([s2 EXCEPT !.last_error = r.exc,
                                              !.initialization_attempted = TRUE],
                                   FALSE, NoExc, r.calls, cons)
                 ELSE IF r.ret = "true"
                   THEN EnsureResult([s2 EXCEPT !.initialized = TRUE,
                                                !.initialization_attempted = TRUE],
                                     TRUE, NoExc, r.calls, cons)
                   ELSE EnsureResult([s2 EXCEPT !.initialization_attempted = TRUE],
                                     FALSE, NoExc, r.calls, cons)

\* Variant of _ensure_bridge that gives up once _initialization_attempted is
\* set, instead of resolving a handle and calling init again.
EnsureBridge_AttemptsOnce(s, env) ==
  IF s.initialized /\ s.bridge.exists THEN EnsureResult(s, TRUE, NoExc, <<>>, "no")
  ELSE
    LET c == IF ~s.bridge.exists THEN BridgeConstruct(env.lib)
             ELSE [b |-> s.bridge, exc |-> NoExc]
        cons == IF s.bridge.exists THEN "no" ELSE "new"
    IN IF c.exc # NoExc
       THEN EnsureResult([s EXCEPT !.last_error = c.exc], FALSE, NoExc, <<>>, "failed")
       ELSE
         LET s1 == [s EXCEPT !.bridge = c.b]
             ad == IF Truthy(s1.window_handle)
                   THEN [s |-> s1, h |-> s1.window_handle, exc |-> NoExc]
                   ELSE AutoDetectWindowHandle(s1, env.top)
         IN IF s.initialization_attempted THEN EnsureResult(s1, FALSE, NoExc, <<>>, cons)
            ELSE IF ad.exc # NoExc THEN EnsureResult(ad.s, FALSE, ad.exc, <<>>, cons)
            ELSE IF ~Truthy(ad.h)
              THEN EnsureResult([ad.s EXCEPT !.initialization_attempted = TRUE],
                                FALSE, NoExc, <<>>, cons)
            ELSE
              LET r == BridgeInit(ad.s.bridge, ad.h, env.init)
                  s2 == [ad.s EXCEPT !.bridge = r.b]
              IN IF r.exc # NoExc
                 THEN EnsureResult([s2 EXCEPT !.last_error = r.exc,
                                              !.initialization_attempted = TRUE],
                                   FALSE, NoExc, r.calls, cons)
                 ELSE IF r.ret = "true"
                   THEN EnsureResult([s2 EXCEPT !.initialized = TRUE,
                                                !.initialization_attempted = TRUE],
                                     TRUE, NoExc, r.calls, cons)
                   ELSE EnsureResult([s2 EXCEPT !.initialization_attempted = TRUE],
                                     FALSE, NoExc, r.calls, cons)

\* VoiceOver._ensure_bridge().
EnsureBridge(s, env) ==
  IF s.initialized /\ s.bridge.exists THEN EnsureResult(s, TRUE, NoExc, <<>>, "no")
  ELSE
    LET c == IF ~s.bridge.exists THEN BridgeConstruct(env.lib)
             ELSE [b |-> s.bridge, exc |-> NoExc]
        cons == IF s.bridge.exists THEN "no" ELSE "new"
    IN IF c.exc # NoExc
       THEN EnsureResult([s EXCEPT !.last_error = c.exc], FALSE, NoExc, <<>>, "failed")
       ELSE
         LET s1 == [s EXCEPT !.bridge = c.b]
             ad == IF Truthy(s1.window_handle)
                   THEN [s |-> s1, h |-> s1.window_handle, exc |-> NoExc]
                   ELSE AutoDetectWindowHandle(s1, env.top)
         IN IF ad.exc # NoExc THEN EnsureResult(ad.s, FALSE, ad.exc, <<>>, cons)
            ELSE IF ~Truthy(ad.h)
              THEN EnsureResult([ad.s EXCEPT !.initialization_attempted = TRUE],
                                FALSE, NoExc, <<>>, cons)
            ELSE
              LET r == BridgeInit(ad.s.bridge, ad.h, env.init)
                  s2 == [ad.s EXCEPT !.bridge = r.b]
              IN IF r.exc # NoExc
                 THEN EnsureResult([s2 EXCEPT !.last_error = r.exc,
                                              !.initialization_attempted = TRUE],
                                   FALSE, NoExc, r.calls, cons)
                 ELSE IF r.ret = "true"
                   THEN EnsureResult([s2 EXCEPT !.initialized = TRUE,
                                                !.initialization_attempted = TRUE],
                                     TRUE, NoExc, r.calls, cons)
                   ELSE EnsureResult([s2 EXCEPT !.initialization_attempted = TRUE],
                                     FALSE, NoExc, r.calls, cons)

\* Result of an adapter operation; `dropped` is the bridge object the
\* operation let go of (NoBridge when it dropped none).
Result(s, ret, exc, calls, dropped, cons) ==
  [s |-> s, ret |-> ret, exc |-> exc, calls |-> calls, dropped |-> dropped,
   cons |-> cons]

\* Variant of set_main_window that stores the handle and keeps the bridge.
SetMainWindow_KeepsBridge(s, window, env) ==
  LET handle == ExtractHandle(window)
  IN IF Truthy(handle)
     THEN Result([s EXCEPT !.window_handle = handle,
                           !.initialization_attempted = FALSE],
                 "none", NoExc, <<>>, NoBridge, "no")
     ELSE Result(s, "none", NoExc, <<>>, NoBridge, "no")

\* Variant of set_main_window that drops the bridge without shutting it down.
SetMainWindow_NoShutdown(s, window, env) ==
  LET handle == ExtractHandle(window)
  IN IF Truthy(handle)
     THEN Result([s EXCEPT !.window_handle = handle,
                           !.initialization_attempted = FALSE,
                           !.initialized = FALSE,
                           !.bridge = NoBridge],
                 "none", NoExc, <<>>, s.bridge, "no")
     ELSE Result(s, "none", NoExc, <<>>, NoBridge, "no")

\* Variant of set_main_window testing `handle is not None` instead of the
\* truth value of the handle.
SetMainWindow_IsNotNone(s, window, env) ==
  LET handle == ExtractHandle(window)
  IN IF handle # NoneH
     THEN LET s1 == [s EXCEPT !.window_handle = handle,
                              !.initialization_attempted = FALSE,
                              !.initialized = FALSE]
          IN IF s1.bridge.exists
             THEN LET r == BridgeShutdown(s1.bridge, env.shutdown)
                  IN Result([s1 EXCEPT !.bridge = NoBridge], "none", NoExc,
                            r.calls, r.b, "no")
             ELSE Result(s1, "none", NoExc, <<>>, NoBridge, "no")
     ELSE Result(s, "none", NoExc, <<>>, NoBridge, "no")

\* VoiceOver.set_main_window(window).
SetMainWindow(s, window, env) ==
  LET handle == ExtractHandle(window)
  IN IF Truthy(handle)
     THEN LET s1 == [s EXCEPT !.window_handle = handle,
                              !.initialization_attempted = FALSE,
                              !.initialized = FALSE]
          IN IF s1.bridge.exists
             THEN LET r == BridgeShutdown(s1.bridge, env.shutdown)
                  IN Result([s1 EXCEPT !.bridge = NoBridge], "none", NoExc,
                            r.calls, r.b, "no")
             ELSE Result(s1, "none", NoExc, <<>>, NoBridge, "no")
     ELSE Result(s, "none", NoExc, <<>>, NoBridge, "no")

\* VoiceOver.speak(text, interrupt).
Speak(s, text, interrupt, env) ==
  LET e == EnsureBridge(s, env)
  IN IF e.exc # NoExc THEN Result(e.s, "none", e.exc, e.calls, NoBridge, e.cons)
     ELSE IF ~e.ok THEN Result(e.s, "false", NoExc, e.calls, NoBridge, e.cons)
     ELSE LET r == BridgeSpeak(e.s.bridge, text, interrupt, env.announce)
              s1 == [e.s EXCEPT !.bridge = r.b]
          IN IF r.exc # NoExc
             THEN Result(s1, "false", NoExc, e.calls \o r.calls, NoBridge, e.cons)
             ELSE Result(s1, r.ret, NoExc, e.calls \o r.calls, NoBridge, e.cons)

\* Variant of silence that runs a readiness pass first, as speak does.
Silence_EnsuresBridge(s, env) ==
  LET e == EnsureBridge(s, env)
  IN IF e.exc # NoExc \/ ~e.ok
     THEN Result(e.s, "none", NoExc, e.calls, NoBridge, e.cons)
     ELSE LET r == BridgeSpeak(e.s.bridge, Str(<<>>), TRUE, env.announce)
          IN Result([e.s EXCEPT !.bridge = r.b], "none", NoExc,
                    e.calls \o r.calls, NoBridge, e.cons)

\* VoiceOver.silence().
Silence(s, env) ==
  IF ~s.bridge.exists \/ ~s.bridge.initialized
  THEN Result(s, "none", NoExc, <<>>, NoBridge, "no")
  ELSE LET r == BridgeSpeak(s.bridge, Str(<<>>), TRUE, env.announce)
       IN Result([s EXCEPT !.bridge = r.b], "none", NoExc, r.calls, NoBridge, "no")

\* Variant of is_active that lets an error of is_running escape.
IsActive_NoCatch(s, env) ==
  LET e == IF ~s.bridge.exists THEN EnsureBridge(s, env)
           ELSE EnsureResult(s, TRUE, NoExc, <<>>, "no")
  IN IF e.exc # NoExc THEN Result(e.s, "none", e.exc, e.calls, NoBridge, e.cons)
     ELSE IF ~e.s.bridge.exists THEN Result(e.s, "false", NoExc, e.calls, NoBridge, e.cons)
     ELSE LET r == BridgeIsRunning(e.s.bridge, env.running)
          IN Result([e.s EXCEPT !.bridge = r.b], r.ret, r.exc,
                    e.calls \o r.calls, NoBridge, e.cons)

\* VoiceOver.is_active().
IsActive(s, env) ==
  LET e == IF ~s.bridge.exists THEN EnsureBridge(s, env)
           ELSE EnsureResult(s, TRUE, NoExc, <<>>, "no")
  IN IF e.exc # NoExc THEN Result(e.s, "none", e.exc, e.calls, NoBridge, e.cons)
     ELSE IF ~e.s.bridge.exists THEN Result(e.s, "false", NoExc, e.calls, NoBridge, e.cons)
     ELSE LET r == BridgeIsRunning(e.s.bridge, env.running)
              s1 == [e.s EXCEPT !.bridge = r.b]
          IN IF r.exc # NoExc
             THEN Result(s1, "false", NoExc, e.calls \o r.calls, NoBridge, e.cons)
             ELSE Result(s1, r.ret, NoExc, e.calls \o r.calls, NoBridge, e.cons)

\* Variant of shutdown that also forgets the stored window handle.
Shutdown_ForgetsHandle(s, env) ==
  IF s.bridge.exists
  THEN LET r == BridgeShutdown(s.bridge, env.shutdown)
       IN Result([s EXCEPT !.bridge = NoBridge, !.initialized = FALSE,
                           !.window_handle = NoneH],
                 "none", NoExc, r.calls, r.b, "no")
  ELSE Result(s, "none", NoExc, <<>>, NoBridge, "no")

\* Variant of shutdown that discards the bridge and leaves the adapter's
\* initialized flag as it was.
Shutdown_KeepsInitialized(s, env) ==
  IF s.bridge.exists
  THEN LET r == BridgeShutdown(s.bridge, env.shutdown)
       IN Result([s EXCEPT !.bridge = NoBridge], "none", NoExc, r.calls, r.b, "no")
  ELSE Result(s, "none", NoExc, <<>>, NoBridge, "no")

\* Variant of shutdown that clears its references after the bridge's shutdown
\* in the try block instead of in a finally clause.
Shutdown_NoFinally(s, env) ==
  IF s.bridge.exists
  THEN LET r == BridgeShutdown(s.bridge, env.shutdown)
       IN IF r.exc # NoExc
          THEN Result([s EXCEPT !.bridge = r.b], "none", NoExc, r.calls, NoBridge, "no")
          ELSE Result([s EXCEPT !.bridge = NoBridge, !.initialized = FALSE],
                      "none", NoExc, r.calls, r.b, "no")
  ELSE Result(s, "none", NoExc, <<>>, NoBridge, "no")

\* VoiceOver.shutdown().
Shutdown(s, env) ==
  IF s.bridge.exists
  THEN LET r == BridgeShutdown(s.bridge, env.shutdown)
       IN Result([s EXCEPT !.bridge = NoBridge, !.initialized = FALSE],
                 "none", NoExc, r.calls, r.b, "no")
  ELSE Result(s, "none", NoExc, <<>>, NoBridge, "no")

\* ------------------------------------------------------------- state
VARIABLES
  bridge,                     \* VoiceOver._bridge (NoBridge for None)
  window_handle,              \* VoiceOver._window_handle
  initialization_attempted,   \* VoiceOver._initialization_attempted
  initialized,                \* VoiceOver._initialized
  last_error,                 \* VoiceOver._last_error
  B,                          \* a VoiceOverBridge used directly by a caller
  op,                         \* the operation called last
  arg,                        \* its arguments
  ret,                        \* the value it returned
  exc,                        \* the exception it raised to its caller
  calls,                      \* the native calls it made, in order
  cons,                       \* whether it called VoiceOverBridge()
  dropped,                    \* the bridge object it let go of
  lastSet,                    \* pointer stored by the last successful
                              \* set_main_window (0 before the first)
  prevSet                     \* pointer stored by the one before it

adapter == <<bridge, window_handle, initialization_attempted, initialized, last_error>>
vars == <<bridge, window_handle, initialization_attempted, initialized, last_error,
          B, op, arg, ret, exc, calls, cons, dropped, lastSet, prevSet>>

\* The adapter object as a record, and the assignment of a record to it.
Self ==
  [bridge |-> bridge, window_handle |-> window_handle,
   initialization_attempted |-> initialization_attempted,
   initialized |-> initialized, last_error |-> last_error]

NoArg ==
  [text |-> NotAStr, interrupt |-> FALSE, hwnd |-> NoneH, window |-> NoneWindow,
   lib |-> GoodLib, top |-> NoneH]

\* The effect of an adapter operation with result r.
Apply(name, a, r) ==
  /\ bridge' = r.s.bridge
  /\ window_handle' = r.s.window_handle
  /\ initialization_attempted' = r.s.initialization_attempted
  /\ initialized' = r.s.initialized
  /\ last_error' = r.s.last_error
  /\ op' = name
  /\ arg' = a
  /\ ret' = r.ret
  /\ exc' = r.exc
  /\ calls' = r.calls
  /\ cons' = r.cons
  /\ dropped' = r.dropped
  /\ UNCHANGED B

\* The effect of an operation with result r on the bridge used directly.
ApplyB(name, a, r) ==
  /\ B' = r.b
  /\ op' = name
  /\ arg' = a
  /\ ret' = r.ret
  /\ exc' = r.exc
  /\ calls' = r.calls
  /\ cons' = "no"
  /\ dropped' = NoBridge
  /\ UNCHANGED <<adapter, lastSet, prevSet>>

Init ==
  /\ bridge = NewAdapter.bridge
  /\ window_handle = NewAdapter.window_handle
  /\ initialization_attempted = NewAdapter.initialization_attempted
  /\ initialized = NewAdapter.initialized
  /\ last_error = NewAdapter.last_error
  /\ B = NoBridge
  /\ op = "new"
  /\ arg = NoArg
  /\ ret = "none"
  /\ exc = NoExc
  /\ calls = <<>>
  /\ cons = "no"
  /\ dropped = NoBridge
  /\ lastSet = 0
  /\ prevSet = 0

\* The collaborators' outcomes an operation can depend on in the current
\* state; an outcome the operation cannot consult is fixed.
AdapterLibs ==
  {[found |-> FALSE, syms |-> {}], GoodLib,
   [found |-> TRUE, syms |-> RequiredSet \ {"vo_announce"}]}
LibChoices == IF bridge.exists THEN {GoodLib} ELSE AdapterLibs
\* _ensure_bridge gets as far as resolving a handle.
Resolves(lib) == ~(initialized /\ bridge.exists) /\ BridgeConstruct(lib).exc = NoExc
\* While a handle is stored the toolkit is still in some state: absent,
\* raising from its top-window lookup, or showing a window with some handle.
StoredHandleTops ==
  {NoTop, [wx |-> "topraise", win |-> NoneWindow]}
    \cup {[wx |-> "window", win |-> WindowObj(Returns(PtrH(n)), Absent)] :
             n \in 1..NHandles}
TopChoices(lib) ==
  IF ~Resolves(lib) THEN {NoTop}
  ELSE IF Truthy(window_handle) THEN StoredHandleTops ELSE Tops
\* What a toolkit state holds for auto-detection: an error, a usable handle,
\* or nothing.
ToolkitRaises == [kind |-> "raise", val |-> 0]
TopHandle(top) ==
  IF top.wx \in {"appraise", "topraise"} THEN ToolkitRaises
  ELSE IF top.wx = "window" /\ Truthy(ExtractHandle(top.win))
    THEN ExtractHandle(top.win)
    ELSE NoneH
\* _ensure_bridge gets as far as calling Bridge.init.
Inits(lib, top) ==
  /\ Resolves(lib)
  /\ \/ Truthy(window_handle)
     \/ top.wx = "window" /\ Truthy(ExtractHandle(top.win))
InitChoices(lib, top) == IF Inits(lib, top) THEN BoolOutcomes ELSE {"true"}
ShutdownChoices == IF bridge.exists THEN VoidOutcomes ELSE {"return"}

\* ------------------------------------------------- adapter operations
VoiceOver_set_main_window ==
  \E window \in Windows, sd \in ShutdownChoices :
    LET r == SetMainWindow(Self, window, Env(GoodLib, NoTop, "true", "true", "true", sd))
    IN /\ Apply("set_main_window", [NoArg EXCEPT !.window = window], r)
       /\ IF Truthy(ExtractHandle(window))
          THEN lastSet' = r.s.window_handle.val /\ prevSet' = lastSet
          ELSE UNCHANGED <<lastSet, prevSet>>

VoiceOver_speak ==
  \E text \in Payloads, interrupt \in BOOLEAN, lib \in LibChoices :
    \E top \in TopChoices(lib) :
      \E init \in InitChoices(lib, top) :
        \E announce \in IF init = "true" THEN BoolOutcomes ELSE {"true"} :
          /\ Apply("speak", [NoArg EXCEPT !.text = text, !.interrupt = interrupt,
                                      !.top = TopHandle(top)],
                   Speak(Self, text, interrupt,
                         Env(lib, top, init, announce, "true", "return")))
          /\ UNCHANGED <<lastSet, prevSet>>

VoiceOver_silence ==
  \E announce \in BoolOutcomes :
    /\ Apply("silence", NoArg,
             Silence(Self, Env(GoodLib, NoTop, "true", announce, "true", "return")))
    /\ UNCHANGED <<lastSet, prevSet>>

VoiceOver_is_active ==
  \E lib \in LibChoices :
    \E top \in IF bridge.exists THEN {NoTop} ELSE TopChoices(lib) :
      \E init \in IF bridge.exists THEN {"true"} ELSE InitChoices(lib, top),
         running \in BoolOutcomes :
        /\ Apply("is_active", [NoArg EXCEPT !.top = TopHandle(top)],
                 IsActive(Self, Env(lib, top, init, "true", running, "return")))
        /\ UNCHANGED <<lastSet, prevSet>>

VoiceOver_shutdown ==
  \E sd \in ShutdownChoices :
    /\ Apply("shutdown", NoArg,
             Shutdown(Self, Env(GoodLib, NoTop, "true", "true", "true", sd)))
    /\ UNCHANGED <<lastSet, prevSet>>

\* ----------------------------------- operations on a bridge used directly
\* VoiceOverBridge(lib=...): a failed construction yields no object.
VoiceOverBridge_new ==
  \E lib \in Libs :
    ApplyB("Bridge", [NoArg EXCEPT !.lib = lib],
           BridgeResult(BridgeConstruct(lib).b, "none", BridgeConstruct(lib).exc, <<>>))

VoiceOverBridge_init ==
  /\ B.exists
  /\ \E hwnd \in HandleValues, out \in BoolOutcomes :
       ApplyB("Bridge.init", [NoArg EXCEPT !.hwnd = hwnd], BridgeInit(B, hwnd, out))

VoiceOverBridge_is_running ==
  /\ B.exists
  /\ \E out \in BoolOutcomes :
       ApplyB("Bridge.is_running", NoArg, BridgeIsRunning(B, out))

VoiceOverBridge_speak ==
  /\ B.exists
  /\ \E text \in Payloads, interrupt \in BOOLEAN, out \in BoolOutcomes :
       ApplyB("Bridge.speak", [NoArg EXCEPT !.text = text, !.interrupt = interrupt],
              BridgeSpeak(B, text, interrupt, out))

VoiceOverBridge_shutdown ==
  /\ B.exists
  /\ B.shutdowns < MaxShutdowns
  /\ \E out \in VoidOutcomes :
       ApplyB("Bridge.shutdown", NoArg, BridgeShutdown(B, out))

\* The operations of the output adapter.
Next ==
  \/ VoiceOver_set_main_window
  \/ VoiceOver_speak
  \/ VoiceOver_silence
  \/ VoiceOver_is_active
  \/ VoiceOver_shutdown

\* The operations of a bridge used directly.
BridgeNext ==
  \/ VoiceOverBridge_new
  \/ VoiceOverBridge_init
  \/ VoiceOverBridge_is_running
  \/ VoiceOverBridge_speak
  \/ VoiceOverBridge_shutdown

\* A host driving the output adapter.
Spec == Init /\ [][Next]_vars
\* A caller driving a bridge directly, as the bridge's tests do with an
\* injected library.
BridgeSpec == Init /\ [][BridgeNext]_vars

\* ------------------------------------------------------------ properties
\* The native calls of the last operation that went to function fn.
CallsTo(fn) == {i \in 1..Len(calls) : calls[i].fn = fn}

\* The adapter's Ready state.
Ready == initialized /\ bridge.exists /\ bridge.initialized

\* The handle-extraction policy in the words of the specification: the
\* top-level-window accessor is used when the window has it, else the
\* generic one; a handle is extracted when that accessor returns a non-null
\* integer or pointer.
UsedAccessor(w) == IF w.mac.k # "absent" THEN w.mac ELSE w.get
Extractable(w) ==
  /\ ~w.none
  /\ UsedAccessor(w).k = "val"
  /\ UsedAccessor(w).h.kind \in {"int", "ptr"}
  /\ UsedAccessor(w).h.val # 0

\* Every state a bridge object can be in.
BridgeObjects ==
  [exists : {TRUE}, initialized : BOOLEAN, hwnd : 0..NHandles,
   shutdowns : 0..MaxShutdowns]

\* C1: vo_announce is invoked only through a bridge whose initialized flag
\* is true: the adapter's speak and silence reach vo_announce only in the
\* Ready state, and Bridge.speak on a bridge whose flag is false (whatever
\* else its state, arguments and the native outcome) fails with
\* NotInitialized (RuntimeError), makes no native call and changes nothing.
C1_AnnounceOnlyWhenInitialized ==
  /\ \A i \in CallsTo("vo_announce") : calls[i].binit
  /\ (op \in {"speak", "silence"} /\ CallsTo("vo_announce") # {}) => Ready
  /\ (CallsTo("vo_announce") # {}) => op \in {"speak", "silence"}
  /\ \A b \in BridgeObjects, text \in Payloads, interrupt \in BOOLEAN,
        out \in BoolOutcomes :
        LET r == BridgeSpeak(b, text, interrupt, out)
        IN /\ ~b.initialized => (r.exc = "RuntimeError" /\ r.calls = <<>> /\ r.b = b)
           /\ \A i \in 1..Len(r.calls) : r.calls[i].binit

\* C1 witness: the adapter has just forwarded a speak to vo_announce, in
\* the Ready state, through its initialised bridge.
C1_Witness ==
  /\ op = "speak" /\ Ready
  /\ \E i \in CallsTo("vo_announce") : calls[i].binit /\ calls[i].bhwnd = bridge.hwnd

\* C2: Output.speak never raises to the host: whatever a collaborator does
\* during the call, speak returns a boolean instead of propagating an error.
C2_SpeakNeverRaises ==
  op = "speak" => (exc = NoExc /\ ret \in {"true", "false"})

\* The part of C2 that the code keeps: unless the toolkit raises during
\* auto-detection, speak raises nothing and returns a boolean.
C2_SpeakCatchesBridgeErrors ==
  (op = "speak" /\ exc # "ToolkitError") => (exc = NoExc /\ ret \in {"true", "false"})

\* C3: after a successful set_main_window(W2) the previous bridge is gone,
\* every later vo_init_with_window receives W2 and every later vo_announce
\* goes through a bridge initialised with W2.
C3_NoStaleHandle ==
  /\ lastSet # 0 =>
       /\ \A i \in CallsTo("vo_init_with_window") : calls[i].ptr = lastSet
       /\ \A i \in CallsTo("vo_announce") : calls[i].bhwnd = lastSet
  /\ (op = "set_main_window" /\ Extractable(arg.window)) =>
       (~bridge.exists /\ ~initialized /\ window_handle = PtrH(lastSet))

\* C3 witness: the handle was changed from W1 to W2 and a later speak
\* initialised a fresh bridge with W2 and announced through it.
C3_Witness ==
  /\ prevSet # 0 /\ prevSet # lastSet /\ op = "speak"
  /\ \E i \in CallsTo("vo_init_with_window") : calls[i].ptr = lastSet
  /\ \E i \in CallsTo("vo_announce") : calls[i].bhwnd = lastSet

\* C4: after set_main_window(W1) and then set_main_window(W2) with W1 # W2,
\* whatever the adapter did in between, the stored handle is W2, and the
\* bridge that existed before the second call had its shutdown invoked
\* exactly once (and is no longer referenced).
C4_SecondSetShutsPriorBridgeOnce ==
  /\ []((prevSet # 0 /\ prevSet # lastSet) => window_handle = PtrH(lastSet))
  /\ [][(op' = "set_main_window" /\ lastSet # 0 /\ lastSet' # lastSet) =>
          /\ window_handle' = PtrH(lastSet')
          /\ ~bridge'.exists
          /\ bridge.exists =>
               /\ bridge.shutdowns = 0
               /\ dropped'.exists /\ dropped'.shutdowns = 1
               /\ Cardinality({i \in 1..Len(calls') : calls'[i].fn = "vo_shutdown"}) = 1
          /\ ~bridge.exists => (calls' = <<>> /\ ~dropped'.exists)]_vars

\* C4 witness: the second set_main_window, with a different handle, has just
\* shut down the initialised bridge that existed before it.
C4_Witness ==
  /\ op = "set_main_window" /\ prevSet # 0 /\ prevSet # lastSet
  /\ window_handle = PtrH(lastSet)
  /\ dropped.exists /\ dropped.shutdowns = 1
  /\ \E i \in CallsTo("vo_shutdown") : calls[i].binit /\ calls[i].bhwnd = prevSet

\* C5: set_main_window with a window from which no handle can be extracted
\* is a no-op: the stored handle, the bridge reference and the bridge's
\* flag, and the adapter's initialized and initialization_attempted flags
\* are unchanged and no native call is made.
C5_UnextractableWindowIsNoOp ==
  [][(op' = "set_main_window" /\ ~Extractable(arg'.window)) =>
       (UNCHANGED adapter /\ calls' = <<>>)]_vars

\* C5 witness: a Ready adapter was given a window whose accessor returned a
\* null pointer, and is still Ready with its handle.
C5_Witness ==
  /\ op = "set_main_window" /\ ~arg.window.none
  /\ arg.window.mac = Returns(PtrH(0))
  /\ Ready /\ window_handle # NoneH /\ calls = <<>>

\* C6 as stated: on an adapter that never had a window handle (and whose
\* auto-detection finds no window), is_active() does not raise and returns
\* false, whatever vo_is_running would return.
C6_IsActiveFalseWithoutHandle ==
  (op = "is_active" /\ window_handle = NoneH /\ exc # "ToolkitError") =>
    (exc = NoExc /\ ret = "false")

\* C6 as amended: on such an adapter is_active() does not raise; it returns
\* false when no bridge could be constructed, and otherwise it calls
\* vo_is_running once and returns its result (false when the call raises).
C6_IsActiveReportsIsRunning ==
  (op = "is_active" /\ window_handle = NoneH /\ exc # "ToolkitError") =>
    /\ exc = NoExc
    /\ ~initialized
    /\ CallsTo("vo_init_with_window") = {} /\ CallsTo("vo_announce") = {}
    /\ IF bridge.exists
       THEN /\ Len(calls) = 1 /\ calls[1].fn = "vo_is_running"
            /\ ret = (IF calls[1].out = "true" THEN "true" ELSE "false")
       ELSE /\ calls = <<>> /\ ret = "false"
            /\ cons = "failed"

\* C6 witness: is_active() on an adapter without a handle returned true.
C6_Witness ==
  /\ op = "is_active" /\ window_handle = NoneH /\ lastSet = 0
  /\ exc = NoExc /\ ret = "true" /\ bridge.exists /\ ~bridge.initialized

\* A null or zero handle in any of its representations.
IsNullHandle(h) == h.kind = "none" \/ (h.kind \in {"int", "ptr"} /\ h.val = 0)

\* C7: for every invalid handle (None, integer 0, or a null native pointer)
\* Bridge.init raises InvalidArgument (ValueError) and does not call the
\* native vo_init_with_window.
C7_InvalidHandleRejected ==
  (op = "Bridge.init" /\ IsNullHandle(arg.hwnd)) =>
    (exc = "ValueError" /\ calls = <<>>)

\* The part of C7 the code keeps: None and the integer 0 are rejected
\* without a native call.
C7_NoneAndZeroRejected ==
  (op = "Bridge.init" /\ IsNullHandle(arg.hwnd) /\ arg.hwnd.kind # "ptr") =>
    (exc = "ValueError" /\ calls = <<>>)

\* C8: after any call to Bridge.shutdown, from any prior state, the
\* bridge's initialized flag is false, the native vo_shutdown having been
\* called once by it.
C8_ShutdownClearsFlag ==
  op = "Bridge.shutdown" =>
    (~B.initialized /\ Len(calls) = 1 /\ calls[1].fn = "vo_shutdown")

\* The part of C8 the code keeps: a shutdown whose native call returns
\* leaves the flag false, whatever the state before.
C8_ReturningShutdownClearsFlag ==
  (op = "Bridge.shutdown" /\ exc = NoExc) =>
    (~B.initialized /\ Len(calls) = 1 /\ calls[1].fn = "vo_shutdown")

\* UTF-8 as a decoder: the code points a byte sequence stands for.
RECURSIVE Utf8Decode(_)
Utf8Decode(bs) ==
  IF bs = <<>> THEN <<>>
  ELSE LET b == bs[1]
           n == IF b < 128 THEN 1 ELSE IF b < 224 THEN 2 ELSE IF b < 240 THEN 3 ELSE 4
           cp == CASE n = 1 -> b
                   [] n = 2 -> (b - 192) * 64 + (bs[2] - 128)
                   [] n = 3 -> (b - 224) * 4096 + (bs[2] - 128) * 64 + (bs[3] - 128)
                   [] n = 4 -> (b - 240) * 262144 + (bs[2] - 128) * 4096
                                 + (bs[3] - 128) * 64 + (bs[4] - 128)
       IN <<cp>> \o Utf8Decode(SubSeq(bs, n + 1, Len(bs)))

\* The first half of C9: on an initialised bridge, speak(text, interrupt)
\* calls vo_announce exactly once with the UTF-8 bytes of text and flag 1
\* for interrupt and 0 otherwise, and returns the native boolean.
C9_SpeakForwardsOnce ==
  (op = "Bridge.speak" /\ B.initialized /\ arg.text.isStr) =>
    /\ Len(calls) = 1
    /\ calls[1].fn = "vo_announce"
    /\ Utf8Decode(calls[1].bytes) = arg.text.cps
    /\ \A i \in 1..Len(calls[1].bytes) : calls[1].bytes[i] \in 0..255
    /\ calls[1].flag = (IF arg.interrupt THEN 1 ELSE 0)
    /\ calls[1].out # "raise" => (exc = NoExc /\ ret = calls[1].out)

\* C9: the bridge lifecycle: after a successful init, speak forwards once
\* with the UTF-8 bytes and the interrupt flag and returns the native
\* result; after a subsequent shutdown initialized is false, and speak on
\* an uninitialised bridge raises NotInitialized (RuntimeError).
C9_BridgeLifecycle ==
  /\ C9_SpeakForwardsOnce
  /\ op = "Bridge.shutdown" => ~B.initialized
  /\ (op = "Bridge.speak" /\ ~B.initialized) => (exc = "RuntimeError" /\ calls = <<>>)

\* C9 without its claim about a shutdown whose native call raises: a
\* returning shutdown clears the flag, speak is refused while the flag is
\* false, and only an init whose native call returns true sets the flag.
C9_LifecycleExceptShutdown ==
  /\ [](/\ C9_SpeakForwardsOnce
        /\ (op = "Bridge.shutdown" /\ exc = NoExc) => ~B.initialized
        /\ (op = "Bridge.speak" /\ ~B.initialized) =>
             (exc = "RuntimeError" /\ calls = <<>>))
  /\ [][(~B.initialized /\ B'.initialized) =>
          (op' = "Bridge.init" /\ ret' = "true" /\ exc' = NoExc)]_vars

\* The errors a Bridge construction can fail with.
ConstructionErrors ==
  {"FileNotFoundError"} \cup {MissingSymbol[i] : i \in 1..Len(MissingSymbol)}

\* C10 as stated: on an adapter that never had a window handle (and whose
\* auto-detection finds no window) every speak returns false and
\* last_error is still unset.
C10_NoHandleLeavesLastErrorUnset ==
  window_handle = NoneH =>
    /\ last_error = NoExc
    /\ (op = "speak" /\ exc # "ToolkitError") => ret = "false"

\* C10 as amended: on such an adapter every speak returns false without a
\* native call, and last_error is changed only by a failed Bridge
\* construction, which it then records; the lack of a handle is never
\* recorded as an error.
C10_NoHandleIsNotAnError ==
  /\ [](window_handle = NoneH =>
          /\ last_error \in {NoExc} \cup ConstructionErrors
          /\ (op = "speak" /\ exc # "ToolkitError") =>
               (ret = "false" /\ exc = NoExc /\ calls = <<>>))
  /\ [][(op' = "speak" /\ window_handle' = NoneH) =>
          IF cons' = "failed"
          THEN last_error' \in ConstructionErrors /\ ~bridge'.exists
          ELSE last_error' = last_error]_vars

\* C10 witness: speak on an adapter without a handle constructed the
\* bridge, returned false and left last_error unset.
C10_Witness ==
  /\ op = "speak" /\ window_handle = NoneH /\ lastSet = 0
  /\ ret = "false" /\ exc = NoExc /\ cons = "new"
  /\ bridge.exists /\ initialization_attempted /\ last_error = NoExc

\* ------------------------------------------------------------------ C11
AdapterOps == {"set_main_window", "speak", "silence", "is_active", "shutdown"}

\* The native calls of the last operation to fn that raised.
Raised(fn) == {i \in CallsTo(fn) : calls[i].out = "raise"}
\* The last operation's native init returned false.
InitReturnedFalse ==
  \E i \in CallsTo("vo_init_with_window") : calls[i].out = "false"
\* Bridge.speak of the last adapter speak refused a payload that is not text.
SpeakRefusedPayload == op = "speak" /\ Ready /\ ~arg.text.isStr
\* A Bridge call of the last adapter operation raised, or its init
\* returned false.
BridgeFailed ==
  \/ cons = "failed"
  \/ \E i \in 1..Len(calls) : calls[i].out = "raise"
  \/ InitReturnedFalse
  \/ SpeakRefusedPayload

\* C11: after any adapter operation during which a Bridge call raised
\* (construction, init, speak, is_running, shutdown) or Bridge init returned
\* false, last_error holds that failure and the operation yielded its safe
\* default: false for speak and is_active, nothing for the others, and no
\* exception.
C11_EveryBridgeFailureRecorded ==
  (op \in AdapterOps /\ BridgeFailed) =>
    /\ exc = NoExc
    /\ ret = IF op \in {"speak", "is_active"} THEN "false" ELSE "none"
    /\ cons = "failed" => last_error \in ConstructionErrors
    /\ (\E i \in 1..Len(calls) : calls[i].out = "raise") => last_error = "NativeError"
    /\ SpeakRefusedPayload => last_error = "TypeError"
    /\ InitReturnedFalse => last_error # NoExc

\* What the adapter does record and what it does not: a failed construction
\* and a raising init are stored in last_error; after an operation whose only
\* Bridge failures were of speak, is_running, shutdown, or an init returning
\* false, last_error can still be unset.  No such operation raises.
C11_OnlySetupErrorsRecorded ==
  (op \in AdapterOps /\ BridgeFailed) =>
    /\ exc = NoExc
    /\ cons = "failed" => last_error \in ConstructionErrors
    /\ Raised("vo_init_with_window") # {} => last_error = "NativeError"
    /\ op \in {"set_main_window", "silence", "shutdown"} => ret = "none"
    /\ op = "speak" => ret = "false"

\* ------------------------------------------------------------------ C12
\* The MissingSymbol error the specification asks for: the symbols are
\* looked for in the order vo_init_with_window, vo_is_running, vo_announce,
\* vo_shutdown, and the first one absent is named.
FirstMissing(syms) ==
  IF "vo_init_with_window" \notin syms THEN "AttributeError: vo_init_with_window"
  ELSE IF "vo_is_running" \notin syms THEN "AttributeError: vo_is_running"
  ELSE IF "vo_announce" \notin syms THEN "AttributeError: vo_announce"
  ELSE IF "vo_shutdown" \notin syms THEN "AttributeError: vo_shutdown"
  ELSE NoExc

\* C12: constructing a Bridge over a loaded library that lacks any of the
\* four required symbols raises the error naming the first missing symbol in
\* the order vo_init_with_window, vo_is_running, vo_announce, vo_shutdown,
\* and yields no bridge object.
C12_MissingSymbolNamesFirst ==
  (op = "Bridge" /\ arg.lib.found /\ arg.lib.syms # RequiredSet) =>
    /\ exc = FirstMissing(arg.lib.syms)
    /\ exc # NoExc
    /\ ~B.exists

\* A library with vo_is_running and vo_shutdown both missing is refused
\* naming vo_is_running.
C12_Witness ==
  /\ op = "Bridge"
  /\ arg.lib = [found |-> TRUE, syms |-> {"vo_init_with_window", "vo_announce"}]
  /\ exc = "AttributeError: vo_is_running"
  /\ ~B.exists

\* ------------------------------------------------------------------ C13
\* C13: readiness is idempotent.  A speak, is_active or silence call made
\* while the adapter is Ready constructs no Bridge, makes no
\* vo_init_with_window call, and leaves the adapter Ready with the same
\* bridge; only shutdown or a successful set_main_window ends the Ready state.
C13_ReadyIsIdempotent ==
  [][(Ready /\ op' \in {"speak", "is_active", "silence"}) =>
       /\ cons' = "no"
       /\ \A i \in 1..Len(calls') : calls'[i].fn # "vo_init_with_window"
       /\ bridge' = bridge
       /\ Ready']_vars

\* A speak made in the Ready state: its only native call is vo_announce.
C13_Witness ==
  /\ op = "speak"
  /\ Ready
  /\ cons = "no"
  /\ Len(calls) = 1
  /\ calls[1].fn = "vo_announce"

\* ------------------------------------------------------------------ C14
\* C14: Output.shutdown never raises.  With a bridge it calls the bridge's
\* shutdown exactly once (one vo_shutdown call, on that bridge) and ends with
\* no bridge reference and initialized false, whether vo_shutdown returned or
\* raised; without a bridge it makes no native call and changes no attribute.
C14_ShutdownDropsBridge ==
  [][op' = "shutdown" =>
       /\ exc' = NoExc
       /\ ret' = "none"
       /\ cons' = "no"
       /\ IF bridge.exists
          THEN /\ Len(calls') = 1
               /\ calls'[1].fn = "vo_shutdown"
               /\ dropped'.exists
               /\ dropped'.shutdowns = bridge.shutdowns + 1
               /\ ~bridge'.exists
               /\ ~initialized'
          ELSE /\ calls' = <<>>
               /\ dropped' = NoBridge
               /\ UNCHANGED adapter]_vars

\* A shutdown of a Ready adapter whose vo_shutdown raised.
C14_Witness ==
  /\ op = "shutdown"
  /\ Len(calls) = 1
  /\ calls[1].fn = "vo_shutdown"
  /\ calls[1].out = "raise"
  /\ calls[1].binit
  /\ exc = NoExc
  /\ ~bridge.exists
  /\ ~initialized

\* ------------------------------------------------------------------ C15
\* C15: Output.silence never raises and never changes the adapter, constructs
\* no Bridge and makes no init call.  Unless a bridge exists and is
\* initialized it makes no native call at all; when one is, it makes exactly
\* one vo_announce call, with empty text and interrupt flag 1, and swallows
\* an error of that call.
C15_SilenceOnlyWhenInitialized ==
  [][op' = "silence" =>
       /\ exc' = NoExc
       /\ ret' = "none"
       /\ cons' = "no"
       /\ UNCHANGED adapter
       /\ IF bridge.exists /\ bridge.initialized
          THEN /\ Len(calls') = 1
               /\ calls'[1].fn = "vo_announce"
               /\ calls'[1].bytes = <<>>
               /\ calls'[1].flag = 1
          ELSE calls' = <<>>]_vars

\* A silence on a Ready adapter whose vo_announce raised.
C15_Witness ==
  /\ op = "silence"
  /\ Ready
  /\ Len(calls) = 1
  /\ calls[1].fn = "vo_announce"
  /\ calls[1].out = "raise"
  /\ exc = NoExc

\* ------------------------------------------------------------------ C16
\* C16: an operation whose Bridge construction failed ends with no bridge
\* reference, not initialized, having made no native call, and reports
\* false.  The next speak or is_active attempts the construction again, and
\* when that construction succeeds and a handle is available it calls the
\* native init with the handle and is Ready exactly when the init returned
\* true.
C16_FailedConstructionIsRetried ==
  [][/\ cons' = "failed" =>
          /\ ~bridge'.exists
          /\ ~initialized'
          /\ calls' = <<>>
          /\ exc' = NoExc
          /\ ret' = "false"
     /\ (cons = "failed" /\ op' \in {"speak", "is_active"}) =>
          /\ cons' \in {"new", "failed"}
          /\ (cons' = "new" /\ Truthy(window_handle')) =>
               /\ Len(calls') >= 1
               /\ calls'[1].fn = "vo_init_with_window"
               /\ calls'[1].ptr = window_handle'.val
               /\ Ready' <=> (calls'[1].out = "true")]_vars

\* A speak that constructed the bridge and reached Ready on an adapter that
\* recorded a failed construction earlier.
C16_Witness ==
  /\ op = "speak"
  /\ cons = "new"
  /\ Ready
  /\ last_error \in ConstructionErrors

\* ------------------------------------------------------------------ C17
\* While a handle is stored, the readiness pass does the same whatever the
\* GUI toolkit holds, for every state of the toolkit.
C17_ReadinessIgnoresToolkit ==
  Truthy(window_handle) =>
    \A lib \in AdapterLibs, top \in Tops, init \in BoolOutcomes :
      EnsureBridge(Self, Env(lib, top, init, "true", "true", "return"))
        = EnsureBridge(Self, Env(lib, NoTop, init, "true", "true", "return"))

\* C17: a stored window handle takes precedence over auto-detection.  While
\* a handle is stored, a speak or is_active step keeps that handle stored
\* whatever window the toolkit shows, passes only that handle to
\* vo_init_with_window, and never lets a toolkit error out, which it would
\* if it consulted a raising toolkit.  A handle stored by set_main_window is
\* the one that stays stored.
C17_StoredHandleTakesPrecedence ==
  [][(Truthy(window_handle) /\ op' \in {"speak", "is_active"}) =>
       /\ window_handle' = window_handle
       /\ lastSet # 0 => window_handle' = PtrH(lastSet)
       /\ exc' # "ToolkitError"
       /\ \A i \in 1..Len(calls') :
            calls'[i].fn = "vo_init_with_window" => calls'[i].ptr = window_handle.val]_vars

\* A speak that initialised the bridge with the handle given to
\* set_main_window while the toolkit's top window had another handle.
C17_Witness ==
  /\ op = "speak"
  /\ lastSet # 0
  /\ window_handle = PtrH(lastSet)
  /\ arg.top.kind = "ptr"
  /\ arg.top # window_handle
  /\ Len(calls) >= 1
  /\ calls[1].fn = "vo_init_with_window"
  /\ calls[1].ptr = lastSet
  /\ Ready

\* ------------------------------------------------------------------ C18
\* C18: in every reachable state the adapter's initialized flag is true
\* exactly when a bridge exists and that bridge's own initialized flag is
\* true.
C18_InitializedIffBridgeInitialized ==
  initialized <=> (bridge.exists /\ bridge.initialized)

\* The adapter just let go of an initialized bridge whose shutdown raised,
\* and its own flag is false.
C18_Witness ==
  /\ op \in {"shutdown", "set_main_window"}
  /\ dropped.exists
  /\ dropped.initialized
  /\ ~bridge.exists
  /\ ~initialized

\* ------------------------------------------------------------------ C19
\* A handle is available to the speak step being taken: one is stored, or
\* the toolkit's top window yields one.
HandleAvailable == Truthy(window_handle) \/ arg'.top.kind = "ptr"
\* The speak step called the native init once, first, with the available
\* handle, and ended Ready exactly when that call returned true.
SpeakRetriedInit ==
  /\ Len(calls') >= 1
  /\ calls'[1].fn = "vo_init_with_window"
  /\ calls'[1].ptr = window_handle'.val
  /\ \A i \in 2..Len(calls') : calls'[i].fn # "vo_init_with_window"
  /\ Ready' <=> (calls'[1].out = "true")

\* C19 as stated: the initialization_attempted flag never suppresses an
\* attempt; whenever the adapter is not Ready and a handle is available,
\* every speak calls the native init again, and the adapter becomes Ready on
\* the call whose native init succeeds.
C19_EverySpeakRetriesInit ==
  [][(op' = "speak" /\ ~Ready /\ HandleAvailable) => SpeakRetriedInit]_vars

\* C19, amended: the same, for every speak during which the Bridge exists or
\* is constructed; whatever initialization_attempted is, such a speak calls
\* the native init again and the adapter becomes Ready on the call whose
\* native init succeeds.  A speak whose Bridge construction fails makes no
\* native call.
C19_SpeakRetriesInitWithBridge ==
  [][(op' = "speak" /\ ~Ready /\ HandleAvailable) =>
       IF cons' = "failed" THEN calls' = <<>> /\ ~Ready'
       ELSE SpeakRetriedInit]_vars

\* A speak that reached Ready on a bridge that was already there, on an
\* adapter whose earlier native init raised and whose
\* initialization_attempted flag was never reset by set_main_window.
C19_Witness ==
  /\ op = "speak"
  /\ cons = "no"
  /\ lastSet = 0
  /\ initialization_attempted
  /\ last_error = "NativeError"
  /\ Len(calls) >= 1
  /\ calls[1].fn = "vo_init_with_window"
  /\ calls[1].out = "true"
  /\ Ready

\* ------------------------------------------------------------------ C20
\* Output.shutdown leaves the stored handle, initialization_attempted and
\* last_error as they were.
ShutdownFrame ==
  op' = "shutdown" => UNCHANGED <<window_handle, initialization_attempted, last_error>>
\* The speak step called the native init first with the stored handle and
\* ended Ready exactly when that call returned true.
SpeakInitialisedWithStoredHandle ==
  /\ Len(calls') >= 1
  /\ calls'[1].fn = "vo_init_with_window"
  /\ calls'[1].ptr = window_handle.val
  /\ window_handle' = window_handle
  /\ Ready' <=> (calls'[1].out = "true")

\* C20 as stated: shutdown is not terminal and leaves the stored window
\* handle, initialization_attempted and last_error unchanged; the speak that
\* follows a shutdown constructs a fresh Bridge and calls the native init with
\* the handle stored before the shutdown, and the adapter is Ready again if
\* that init succeeds.
C20_SpeakAfterShutdownConstructs ==
  [][/\ ShutdownFrame
     /\ (op = "shutdown" /\ op' = "speak") =>
          /\ cons' = "new"
          /\ Truthy(window_handle) => SpeakInitialisedWithStoredHandle]_vars

\* C20, amended: the same, where the speak that follows a shutdown attempts
\* the construction of a fresh Bridge, and goes on to the native init with
\* the stored handle when that construction succeeds; when it fails the speak
\* makes no native call and the adapter stays not Ready.
C20_SpeakAfterShutdownRebuilds ==
  [][/\ ShutdownFrame
     /\ (op = "shutdown" /\ op' = "speak") =>
          /\ cons' \in {"new", "failed"}
          /\ cons' = "failed" => (calls' = <<>> /\ ~Ready' /\ ret' = "false")
          /\ (cons' = "new" /\ Truthy(window_handle)) =>
               SpeakInitialisedWithStoredHandle]_vars

\* A speak that constructed a bridge and reached Ready with a handle that was
\* stored by an earlier auto-detection, not by set_main_window and not by the
\* toolkit now: the bridge of that earlier pass was discarded by shutdown and
\* the handle survived it.
C20_Witness ==
  /\ op = "speak"
  /\ cons = "new"
  /\ lastSet = 0
  /\ Truthy(window_handle)
  /\ arg.top = NoneH
  /\ Len(calls) >= 1
  /\ calls[1].fn = "vo_init_with_window"
  /\ calls[1].ptr = window_handle.val
  /\ Ready

====
